---- MODULE Spec2Model ----
(***************************************************************************)
(* The simulation core of the FlappyBird3D component: the game loop, the   *)
(* collision check and the jump handler, over the component's state.       *)
(*                                                                         *)
(* Units.  Every length and velocity of the source is a multiple of 0.25   *)
(* (GRAVITY = 0.25, PIPE_SPEED = 1.5, the rest are integers), so lengths   *)
(* and velocities are kept in quarter world units: 4 here is 1.0 in the    *)
(* source.  The rotation is kept in units of 1/80 rad, so that             *)
(* velocity * 0.05 (source) is the velocity in quarter units unchanged.    *)
(* Times are milliseconds, as Date.now() gives them.                       *)
(*                                                                         *)
(* React commits the state updates of one handler before the next handler  *)
(* runs, and re-creates gameLoop and handleJump from the committed state:  *)
(* each action below reads the committed state, and the score that         *)
(* gameLoop closes over is the score committed before the tick.            *)
(***************************************************************************)
EXTENDS Integers, Sequences, FiniteSets

(* Program constants, in quarter world units. *)
GAME_WIDTH == 1600
BIRD_SIZE == 80
PIPE_WIDTH == 200
PIPE_GAP == 560
GRAVITY == 1
JUMP_FORCE == -24
PIPE_SPEED == 6
MAX_VELOCITY == 24
(* The ground/ceiling limit of checkCollision: 230 world units. *)
BOUND_Y == 920
(* The rotation limit 0.5 rad, in 1/80 rad. *)
ROT_LIMIT == 40
(* The spawn interval of gameLoop, in ms. *)
SPAWN_INTERVAL == 3000

(* Bounds of the model. *)
(* Date.now() when the component is constructed (any value above the spawn interval). *)
StartTime == 5000
(* Milliseconds between two animation frames. *)
FrameMs == 16
(* The number of animation frames explored. *)
MaxFrames == 345
(* The player's input is delivered every InputEvery-th frame. *)
InputEvery == 24
(* The frame after which the player sends no more jumps (the fair specification). *)
QuitFrames == 217
(* The number of frames within which a bird left alone ends its game. *)
FallFrames == 120
(* The values Math.random() is drawn from, in units of 1/800: within [0, 800). *)
RandomChoices == {0, 750, 799}

(* Mutant: the offset of the gap is left out. *)
RandomGapNoOffset(r) == r

(* gameLoop: gapY = Math.random() * 200 - 100, r being Math.random() in 1/800. *)
RandomGap(r) == r - 400

(* The gaps a spawn draws from: within [-400, 400). *)
GapChoices == {RandomGap(r) : r \in RandomChoices}

(* gameState, bird, score, highScore: the component's React state.  pipes,    *)
(* lastPipeTime: pipesRef.current and lastPipeTime.current.  now: the last   *)
(* frame's Date.now().  poll: frames until the next input is delivered.      *)
(* lastOp: the handler that ran last.  retiredPassed: how many pipes of the  *)
(* current session the filter has removed with passed set (history only).    *)
VARIABLES gameState, bird, pipes, score, highScore, lastPipeTime, now, poll, lastOp,
          retiredPassed

vars == <<gameState, bird, pipes, score, highScore, lastPipeTime, now, poll, lastOp,
          retiredPassed>>

Min(a, b) == IF a < b THEN a ELSE b
Max(a, b) == IF a > b THEN a ELSE b

MaxNow == StartTime + FrameMs * MaxFrames

Init ==
    /\ gameState = "waiting"
    /\ bird = [y |-> 0, velocity |-> 0, rotation |-> 0]
    /\ pipes = <<>>
    /\ score = 0
    /\ highScore = 0
    /\ lastPipeTime = 0
    /\ now = StartTime
    /\ poll = 0
    /\ lastOp = "init"
    /\ retiredPassed = 0

(* Mutant: the ceiling test is left out. *)
OutOfBoundsGroundOnly(birdY) == birdY > BOUND_Y

(* checkCollision: the ground/ceiling test. *)
OutOfBounds(birdY) == birdY > BOUND_Y \/ birdY < -BOUND_Y

birdX == -(GAME_WIDTH \div 4)
birdRadius == BIRD_SIZE \div 2

(* checkCollision: the pipe's horizontal span meets the bird's. *)
Overlaps(pipe) ==
    /\ pipe.x - PIPE_WIDTH \div 2 < birdX + birdRadius
    /\ pipe.x + PIPE_WIDTH \div 2 > birdX - birdRadius

(* checkCollision: the vertical test against one overlapping pipe. *)
HitsPipe(pipe, birdY) ==
    LET gapTop == pipe.gapY - PIPE_GAP \div 2
        gapBottom == pipe.gapY + PIPE_GAP \div 2
    IN  birdY + birdRadius < gapTop \/ birdY - birdRadius > gapBottom

checkCollision(birdY, ps) ==
    \/ OutOfBounds(birdY)
    \/ \E i \in 1..Len(ps) : Overlaps(ps[i]) /\ HitsPipe(ps[i], birdY)

(* Mutant: the velocity is not clamped. *)
NewVelocityUnclamped(v) == v + GRAVITY

(* Mutant: gravity is not applied. *)
NewVelocityNoGravity(v) == Min(v, MAX_VELOCITY)

(* gameLoop: the bird's integration. *)
NewVelocity(v) == Min(v + GRAVITY, MAX_VELOCITY)
(* Mutant: the rotation factor is 0.1 for 0.05. *)
NewRotationSteep(v) == Max(-ROT_LIMIT, Min(ROT_LIMIT, 2 * v))
NewRotation(v) == Max(-ROT_LIMIT, Min(ROT_LIMIT, v))
Integrate(b) ==
    LET newVelocity == NewVelocity(b.velocity)
    IN  [y |-> b.y + newVelocity, velocity |-> newVelocity, rotation |-> NewRotation(newVelocity)]

(* gameLoop: the pipe filter. *)
Moved(pipe) == [pipe EXCEPT !.x = pipe.x - PIPE_SPEED]
(* Mutant: a pipe is retired a quarter of the width from the centre. *)
OffScreenEarly(pipe) == pipe.x < -(GAME_WIDTH \div 4)
OffScreen(pipe) == pipe.x < -(GAME_WIDTH \div 2) - PIPE_WIDTH
(* Mutant: the pass is tested on the pipe's centre, not on its trailing edge. *)
PassesAtCentre(pipe) == ~pipe.passed /\ pipe.x < -(GAME_WIDTH \div 4)
Passes(pipe) == ~pipe.passed /\ pipe.x + PIPE_WIDTH \div 2 < -(GAME_WIDTH \div 4)
(* Mutant: the passed flag is never set. *)
MarkPassedNever(pipe) == pipe
MarkPassed(pipe) == IF Passes(pipe) THEN [pipe EXCEPT !.passed = TRUE] ELSE pipe
Kept(ps) ==
    LET moved == [i \in 1..Len(ps) |-> Moved(ps[i])]
    IN  SelectSeq(moved, LAMBDA p : ~OffScreen(p))
FilterPipes(ps) == [i \in 1..Len(Kept(ps)) |-> MarkPassed(Kept(ps)[i])]
PassCount(ps) == Cardinality({i \in 1..Len(Kept(ps)) : Passes(Kept(ps)[i])})
(* The pipes the filter drops that had been passed. *)
RetiredPassed(ps) == Cardinality({i \in 1..Len(ps) : OffScreen(Moved(ps[i])) /\ ps[i].passed})

(* gameLoop: the spawn. *)
(* Mutant: the spawn interval is 300 ms for 3000 ms. *)
ShouldSpawnTooSoon(currentTime, last) == currentTime - last > 300
ShouldSpawn(currentTime, last) == currentTime - last > SPAWN_INTERVAL
(* Mutant: a pipe is created at the bird's position. *)
pipeXAtBird == -(GAME_WIDTH \div 4)
pipeX == GAME_WIDTH \div 2 + PIPE_WIDTH
NewPipe(gapY) == [x |-> pipeX, gapY |-> gapY, passed |-> FALSE]
(* The pipes one tick pushes: one, with any gap, when the interval has elapsed. *)
Spawned(currentTime, last) ==
    IF ShouldSpawn(currentTime, last) THEN {<<NewPipe(gapY)>> : gapY \in GapChoices} ELSE {<<>>}

(* Mutant: the high score is overwritten, not maximised. *)
NewHighScoreOverwrite(prev, closureScore) == closureScore

(* gameLoop: setHighScore(prev => Math.max(prev, score)), score being the closure's. *)
NewHighScore(prev, closureScore) == Max(prev, closureScore)

(* The frame clock and the input polling, common to every frame. *)
Frame ==
    /\ now + FrameMs <= MaxNow
    /\ now' = now + FrameMs
    /\ poll' = IF poll = 0 THEN InputEvery - 1 ELSE poll - 1
    /\ lastOp' = "tick"

(* gameLoop while playing. *)
TickPlaying ==
    /\ gameState = "playing"
    /\ Frame
    /\ LET newBird == Integrate(bird)
           currentTime == now'
           filtered == FilterPipes(pipes)
       IN  /\ bird' = newBird
           /\ score' = score + PassCount(pipes)
           /\ retiredPassed' = retiredPassed + RetiredPassed(pipes)
           /\ \E spawned \in Spawned(currentTime, lastPipeTime) :
                LET newPipes == filtered \o spawned
                IN  /\ pipes' = newPipes
                    /\ lastPipeTime' = IF spawned # <<>> THEN currentTime ELSE lastPipeTime
                    /\ IF checkCollision(newBird.y, newPipes)
                       THEN /\ gameState' = "gameOver"
                            /\ highScore' = NewHighScore(highScore, score)
                       ELSE UNCHANGED <<gameState, highScore>>

(* Mutant: the early return is missing and the bird is integrated. *)
TickIdleRuns ==
    /\ gameState # "playing"
    /\ Frame
    /\ bird' = Integrate(bird)
    /\ UNCHANGED <<gameState, pipes, score, highScore, lastPipeTime, retiredPassed>>

(* gameLoop while not playing: an early return. *)
TickIdle ==
    /\ gameState # "playing"
    /\ Frame
    /\ UNCHANGED <<gameState, bird, pipes, score, highScore, lastPipeTime, retiredPassed>>

(* handleJump, by the state it closes over. *)
JumpWaiting ==
    /\ gameState = "waiting"
    /\ poll = 0
    /\ gameState' = "playing"
    /\ lastOp' = "action"
    /\ UNCHANGED <<bird, pipes, score, highScore, lastPipeTime, now, poll, retiredPassed>>

(* Mutant: the jump adds the impulse to the velocity. *)
JumpPlayingAdds ==
    /\ gameState = "playing"
    /\ poll = 0
    /\ bird' = [bird EXCEPT !.velocity = bird.velocity + JUMP_FORCE]
    /\ lastOp' = "action"
    /\ UNCHANGED <<gameState, pipes, score, highScore, lastPipeTime, now, poll, retiredPassed>>

JumpPlaying ==
    /\ gameState = "playing"
    /\ poll = 0
    /\ bird' = [bird EXCEPT !.velocity = JUMP_FORCE]
    /\ lastOp' = "action"
    /\ UNCHANGED <<gameState, pipes, score, highScore, lastPipeTime, now, poll, retiredPassed>>

(* Mutant: the restart goes straight to playing. *)
JumpGameOverReplay ==
    /\ gameState = "gameOver"
    /\ poll = 0
    /\ bird' = [y |-> 0, velocity |-> 0, rotation |-> 0]
    /\ score' = 0
    /\ pipes' = <<>>
    /\ lastPipeTime' = 0
    /\ gameState' = "playing"
    /\ retiredPassed' = 0
    /\ lastOp' = "action"
    /\ UNCHANGED <<highScore, now, poll>>

(* Mutant: the restart leaves the pipes in place. *)
JumpGameOverKeepPipes ==
    /\ gameState = "gameOver"
    /\ poll = 0
    /\ bird' = [y |-> 0, velocity |-> 0, rotation |-> 0]
    /\ score' = 0
    /\ lastPipeTime' = 0
    /\ gameState' = "waiting"
    /\ lastOp' = "action"
    /\ UNCHANGED <<pipes, highScore, now, poll, retiredPassed>>

(* Mutant: the restart leaves the score in place. *)
JumpGameOverKeepScore ==
    /\ gameState = "gameOver"
    /\ poll = 0
    /\ bird' = [y |-> 0, velocity |-> 0, rotation |-> 0]
    /\ pipes' = <<>>
    /\ lastPipeTime' = 0
    /\ gameState' = "waiting"
    /\ retiredPassed' = 0
    /\ lastOp' = "action"
    /\ UNCHANGED <<score, highScore, now, poll>>

(* Mutant: the restart leaves the bird where it ended. *)
JumpGameOverKeepBird ==
    /\ gameState = "gameOver"
    /\ poll = 0
    /\ score' = 0
    /\ pipes' = <<>>
    /\ lastPipeTime' = 0
    /\ gameState' = "waiting"
    /\ retiredPassed' = 0
    /\ lastOp' = "action"
    /\ UNCHANGED <<bird, highScore, now, poll>>

JumpGameOver ==
    /\ gameState = "gameOver"
    /\ poll = 0
    /\ bird' = [y |-> 0, velocity |-> 0, rotation |-> 0]
    /\ score' = 0
    /\ pipes' = <<>>
    /\ lastPipeTime' = 0
    /\ gameState' = "waiting"
    /\ retiredPassed' = 0
    /\ lastOp' = "action"
    /\ UNCHANGED <<highScore, now, poll>>

Next == TickPlaying \/ TickIdle \/ JumpWaiting \/ JumpPlaying \/ JumpGameOver

Spec == Init /\ [][Next]_vars

(* The player stops jumping at QuitTime; animate reschedules itself every  *)
(* frame, so a tick that can run does run.                                 *)
QuitTime == StartTime + FrameMs * QuitFrames
JumpBeforeQuit == now < QuitTime /\ JumpPlaying
NextQuit == TickPlaying \/ TickIdle \/ JumpWaiting \/ JumpBeforeQuit \/ JumpGameOver
FairSpec == Init /\ [][NextQuit]_vars /\ WF_vars(TickPlaying)

(***************************************************************************)
(* Properties.  A step is a tick when lastOp' = "tick" and an action when  *)
(* lastOp' = "action".                                                     *)
(***************************************************************************)
ZeroBird == [y |-> 0, velocity |-> 0, rotation |-> 0]
IsTick == lastOp' = "tick"
IsAction == lastOp' = "action"

(* C1: the lifecycle state changes only waiting -> playing on an action,   *)
(* playing -> gameOver in a tick whose collision check is true, and        *)
(* gameOver -> waiting on an action; no step changes it otherwise.         *)
C1_LifecycleTransitions ==
    [][gameState' # gameState =>
        \/ gameState = "waiting" /\ gameState' = "playing" /\ IsAction
        \/ gameState = "playing" /\ gameState' = "gameOver" /\ IsTick
              /\ checkCollision(bird'.y, pipes')
        \/ gameState = "gameOver" /\ gameState' = "waiting" /\ IsAction]_vars
(* The three transitions have been taken in turn. *)
C1_Witness == gameState = "waiting" /\ lastOp = "action"

(* C2: a playing tick that detects a collision leaves highScore at the     *)
(* maximum of the previous highScore and the score as it stands after the  *)
(* tick, a pass counted in that tick included.                             *)
C2_CollisionRecordsCurrentScore ==
    [][(gameState = "playing" /\ gameState' = "gameOver") =>
        highScore' = Max(highScore, score')]_vars

(* C3: an action while gameOver empties the pipes, zeroes the bird and the *)
(* score, keeps highScore and goes to waiting; waiting is left only by an  *)
(* action, to playing.                                                     *)
C3_RestartGoesToWaiting ==
    [][/\ (gameState = "gameOver" /\ IsAction) =>
            /\ pipes' = <<>>
            /\ bird' = ZeroBird
            /\ score' = 0
            /\ highScore' = highScore
            /\ gameState' = "waiting"
       /\ (gameState = "waiting" /\ gameState' # "waiting") =>
            (IsAction /\ gameState' = "playing")]_vars
(* A restart has run on a game that had set a high score. *)
C3_Witness == gameState = "waiting" /\ lastOp = "action" /\ highScore > 0

(* C4: a pipe's passed flag is never cleared, a new pipe starts unpassed,  *)
(* a playing tick adds to the score the number of pipes whose flag it      *)
(* sets, no other step adds to it; so while playing or gameOver the score  *)
(* is the number of this session's pipes with the flag set, live or        *)
(* retired.                                                                *)
PassedLive == Cardinality({i \in 1..Len(pipes) : pipes[i].passed})
Successor(i, j) == pipes'[j].x = pipes[i].x - PIPE_SPEED
C4_PlayingTick ==
    LET flips == {j \in 1..Len(pipes') :
                    /\ pipes'[j].passed
                    /\ \E i \in 1..Len(pipes) : Successor(i, j) /\ ~pipes[i].passed}
    IN  /\ score' = score + Cardinality(flips)
        /\ \A i \in 1..Len(pipes), j \in 1..Len(pipes') :
              (Successor(i, j) /\ pipes[i].passed) => pipes'[j].passed
        /\ \A j \in 1..Len(pipes') :
              (~\E i \in 1..Len(pipes) : Successor(i, j)) => ~pipes'[j].passed
C4_OtherStep ==
    \/ score' = score /\ pipes' = pipes
    \/ score' = 0 /\ pipes' = <<>>
C4_ScoreCountsPasses ==
    /\ [](gameState \in {"playing", "gameOver"} => score = PassedLive + retiredPassed)
    /\ [][IF IsTick /\ gameState = "playing" THEN C4_PlayingTick ELSE C4_OtherStep]_vars
(* A pipe has been passed, scored and then retired. *)
C4_Witness == gameState = "playing" /\ score = 1 /\ retiredPassed = 1

(* C5, as stated: a playing tick that leaves the bird with y + radius      *)
(* beyond 230 or y - radius beyond -230 ends the game in that tick.        *)
C5_BoundsWithRadius ==
    [][(IsTick /\ gameState = "playing"
          /\ (bird'.y + birdRadius > BOUND_Y \/ bird'.y - birdRadius < -BOUND_Y)) =>
        gameState' = "gameOver"]_vars
(* C5, amended: a playing tick that leaves the bird's centre beyond 230 or *)
(* -230 ends the game in that tick, and a tick that leaves it within and   *)
(* hits no pipe does not.                                                  *)
HitsSomePipe(birdY, ps) == \E i \in 1..Len(ps) : Overlaps(ps[i]) /\ HitsPipe(ps[i], birdY)
C5_BoundsAtCentre ==
    [][(IsTick /\ gameState = "playing") =>
        /\ (bird'.y > BOUND_Y \/ bird'.y < -BOUND_Y) => gameState' = "gameOver"
        /\ (bird'.y <= BOUND_Y /\ bird'.y >= -BOUND_Y /\ ~HitsSomePipe(bird'.y, pipes')) =>
              gameState' = "playing"]_vars
(* The game has ended on the ceiling bound alone. *)
C5_Witness ==
    gameState = "gameOver" /\ bird.y < -BOUND_Y /\ ~HitsSomePipe(bird.y, pipes)

(* C6: for every pipe overlapping the bird horizontally, the collision     *)
(* test of that pipe is true exactly when the bird's circle                *)
(* [y - 10, y + 10] is not entirely inside the gap.                        *)
InsideGap(pipe, birdY) ==
    /\ birdY - birdRadius >= pipe.gapY - PIPE_GAP \div 2
    /\ birdY + birdRadius <= pipe.gapY + PIPE_GAP \div 2
C6_CollisionUnlessInsideGap ==
    \A i \in 1..Len(pipes) :
        Overlaps(pipes[i]) => (HitsPipe(pipes[i], bird.y) <=> ~InsideGap(pipes[i], bird.y))

(* C7: a tick while waiting or gameOver changes nothing of the game.       *)
C7_IdleTickChangesNothing ==
    [][(IsTick /\ gameState # "playing") =>
        UNCHANGED <<gameState, bird, pipes, lastPipeTime, score, highScore>>]_vars
(* A tick has run while waiting, after a game. *)
C7_Witness == gameState = "waiting" /\ lastOp = "tick" /\ highScore > 0

(* C8: highScore never decreases, and changes only in a tick that moves    *)
(* playing to gameOver.                                                    *)
C8_HighScoreMonotonic ==
    [][/\ highScore' >= highScore
       /\ highScore' # highScore =>
            (IsTick /\ gameState = "playing" /\ gameState' = "gameOver")]_vars
(* A later game has ended below the high score, which stood. *)
C8_Witness == gameState = "gameOver" /\ highScore > score

(* C9: while waiting, the score is 0, there are no pipes and the bird is   *)
(* at rest at the origin.                                                  *)
C9_WaitingIsClean ==
    gameState = "waiting" => (score = 0 /\ pipes = <<>> /\ bird = ZeroBird)
(* A second game has just been started from waiting. *)
C9_Witness ==
    gameState = "playing" /\ lastOp = "action" /\ highScore > 0 /\ pipes = <<>> /\ score = 0

(* C10: the velocity never exceeds MAX_VELOCITY; a playing tick sets it to *)
(* min(velocity + GRAVITY, MAX_VELOCITY) and a jump sets it to JUMP_FORCE. *)
C10_VelocityBounded ==
    /\ [](bird.velocity <= MAX_VELOCITY)
    /\ [][/\ (IsTick /\ gameState = "playing") =>
                bird'.velocity = Min(bird.velocity + GRAVITY, MAX_VELOCITY)
          /\ (IsAction /\ gameState = "playing") => bird'.velocity = JUMP_FORCE]_vars
(* The bird falls at the maximum velocity, below where free fall first reaches it. *)
C10_Witness ==
    gameState = "playing" /\ lastOp = "tick" /\ bird.velocity = MAX_VELOCITY /\ bird.y > 400

(* C11: every pipe's gapY lies within [-100, 100] world units, and a tick  *)
(* carries each pipe it keeps over with its gapY unchanged; no other step  *)
(* changes a pipe.                                                         *)
GAP_LIMIT == 400
C11_GapWithinRange ==
    /\ [](\A i \in 1..Len(pipes) : pipes[i].gapY >= -GAP_LIMIT /\ pipes[i].gapY <= GAP_LIMIT)
    /\ [][IF IsTick /\ gameState = "playing"
          THEN \A i \in 1..Len(pipes), j \in 1..Len(pipes') :
                  Successor(i, j) => pipes'[j].gapY = pipes[i].gapY
          ELSE pipes' = pipes \/ pipes' = <<>>]_vars
(* Two pipes with different gaps are live, the older one moved across the field. *)
C11_Witness ==
    /\ Len(pipes) = 2
    /\ pipes[1].gapY # pipes[2].gapY
    /\ pipes[1].x < 0

(* C12: after a playing tick the rotation is the tick's new velocity times *)
(* 0.05 clamped to [-0.5, 0.5], and the rotation lies within [-0.5, 0.5]   *)
(* in every state.                                                         *)
C12_RotationClamped ==
    /\ [](bird.rotation >= -ROT_LIMIT /\ bird.rotation <= ROT_LIMIT)
    /\ [][(IsTick /\ gameState = "playing") =>
            bird'.rotation = Max(-ROT_LIMIT, Min(ROT_LIMIT, bird'.velocity))]_vars
(* A tick has run on a rising bird. *)
C12_Witness == lastOp = "tick" /\ bird.velocity < 0 /\ bird.rotation < 0

(* C13: every pipe a playing tick removes has its passed flag set before   *)
(* the tick.                                                               *)
C13_RetiredWerePassed ==
    [][(IsTick /\ gameState = "playing") =>
        \A i \in 1..Len(pipes) :
            (~\E j \in 1..Len(pipes') : Successor(i, j)) => pipes[i].passed]_vars
(* The first pipe has been retired and the second is alone on the field. *)
C13_Witness ==
    /\ lastOp = "tick"
    /\ retiredPassed > 0
    /\ Len(pipes) = 1
    /\ ~pipes[1].passed

(* C14: the collision outcome of a playing tick is that of the check on    *)
(* the pipes carried over, the pipe created in the tick left out.          *)
CarriedOver ==
    SelectSeq(pipes', LAMBDA p : \E i \in 1..Len(pipes) : p.x = pipes[i].x - PIPE_SPEED)
C14_SpawnDoesNotCollide ==
    [][(IsTick /\ gameState = "playing") =>
        (gameState' = "gameOver" <=> checkCollision(bird'.y, CarriedOver))]_vars
(* A tick has created the first pipe of a game and the game goes on. *)
C14_Witness ==
    /\ gameState = "playing"
    /\ lastOp = "tick"
    /\ Len(pipes) = 1
    /\ pipes[1].x = GAME_WIDTH \div 2 + PIPE_WIDTH

(* C15: an action while playing sets the velocity to JUMP_FORCE whatever   *)
(* it was and changes nothing else; on a bird that already has that        *)
(* velocity it changes nothing at all.                                     *)
C15_JumpSetsVelocityOnly ==
    [][(IsAction /\ gameState = "playing") =>
        /\ bird'.velocity = JUMP_FORCE
        /\ bird'.y = bird.y
        /\ bird'.rotation = bird.rotation
        /\ UNCHANGED <<gameState, pipes, score, highScore, lastPipeTime>>
        /\ (bird.velocity = JUMP_FORCE => bird' = bird)]_vars
(* A falling bird has jumped: the velocity is the impulse, the tilt still that of the fall. *)
C15_Witness ==
    /\ gameState = "playing"
    /\ lastOp = "action"
    /\ bird.velocity = JUMP_FORCE
    /\ bird.rotation > 0
    /\ pipes # <<>>

(* C16: a playing tick creates at most one pipe, and one exactly when the  *)
(* tick's clock value is more than 3000 ms past lastPipeTime, which then   *)
(* becomes that clock value and is otherwise unchanged; lastPipeTime is 0  *)
(* while waiting, and the first playing tick of a game creates a pipe.     *)
Created ==
    {j \in 1..Len(pipes') : ~\E i \in 1..Len(pipes) : Successor(i, j)}
C16_SpawnOnInterval ==
    /\ [](gameState = "waiting" => lastPipeTime = 0)
    /\ [][(IsTick /\ gameState = "playing") =>
            /\ Cardinality(Created) <= 1
            /\ Cardinality(Created) = 1 <=> now' - lastPipeTime > 3000
            /\ lastPipeTime' = IF Cardinality(Created) = 1 THEN now' ELSE lastPipeTime
            /\ pipes = <<>> => Len(pipes') = 1]_vars
(* A second pipe has been created, more than 3000 ms after the first. *)
C16_Witness ==
    /\ Len(pipes) = 2
    /\ pipes[2].x = GAME_WIDTH \div 2 + PIPE_WIDTH
    /\ lastPipeTime = now
    /\ lastOp = "tick"

(* C17, as stated: a pipe whose passed flag is set does not overlap the    *)
(* bird's horizontal span, so it cannot cause a collision.                 *)
C17_PassedNeverOverlaps ==
    \A i \in 1..Len(pipes) : pipes[i].passed => ~Overlaps(pipes[i])
(* C17, amended: a pipe whose passed flag is set has its trailing edge     *)
(* left of the bird's centre (x + 25 < -100); it still overlaps the bird's *)
(* span, and can collide, exactly while that edge is right of the bird's   *)
(* own trailing edge (x + 25 > -110), and never after.                     *)
C17_PassedBehindCentre ==
    \A i \in 1..Len(pipes) :
        pipes[i].passed =>
            /\ pipes[i].x + 100 < -400
            /\ Overlaps(pipes[i]) <=> pipes[i].x + 100 > -440
            /\ pipes[i].x + 100 <= -440 => ~HitsPipe(pipes[i], bird.y) \/ ~Overlaps(pipes[i])
(* A game has ended on a pipe that had been passed and scored in an earlier tick. *)
C17_Witness ==
    /\ gameState = "gameOver"
    /\ ~OutOfBounds(bird.y)
    /\ highScore >= 1
    /\ score >= 1
    /\ \E i \in 1..Len(pipes) :
          pipes[i].passed /\ Overlaps(pipes[i]) /\ HitsPipe(pipes[i], bird.y)

(* C18: while playing the collision check on the bird's position and the   *)
(* pipes is false, and a playing tick whose new position and pipes make it *)
(* true ends in gameOver.                                                  *)
C18_PlayingIsCollisionFree ==
    /\ [](gameState = "playing" => ~checkCollision(bird.y, pipes))
    /\ [][(IsTick /\ gameState = "playing" /\ checkCollision(bird'.y, pipes')) =>
            gameState' = "gameOver"]_vars
(* The bird is inside a pipe's span, in its gap, and the game goes on. *)
C18_Witness ==
    /\ gameState = "playing"
    /\ lastOp = "tick"
    /\ \E i \in 1..Len(pipes) : Overlaps(pipes[i]) /\ ~pipes[i].passed

(* C19: once the player sends no more jumps, a game that is playing, with  *)
(* FallFrames frames left to run, reaches gameOver; and with a velocity    *)
(* that is not negative every playing tick moves the bird further down.    *)
C19_LeftAloneEndsGame ==
    /\ []((gameState = "playing" /\ now >= QuitTime /\ now + FallFrames * FrameMs <= MaxNow)
            => <>(gameState = "gameOver"))
    /\ [][(IsTick /\ gameState = "playing" /\ bird.velocity >= 0) => bird'.y > bird.y]_vars
(* A game left alone has ended on the ground bound. *)
C19_Witness ==
    /\ gameState = "gameOver"
    /\ now > QuitTime + FrameMs
    /\ lastOp = "tick"
    /\ bird.y > BOUND_Y

====
